---- MODULE Spec2Model ----
(***************************************************************************)
(* BismuthExplorer: the live-state synchronizer (explorebis.py: main_info, *)
(* test_connect and the fetch functions they call) and the aggregate-table *)
(* maintenance engine (toolsdb.py: updatedb, buildtoolsdb).                *)
(*                                                                         *)
(* SpecSync is the synchronizer: viewer connects, main_info loop instances *)
(* and the node whose height they poll.  SpecDb is the maintenance engine: *)
(* the ledger, tools.db, blocks.txt and the buildtoolsdb process.          *)
(***************************************************************************)
EXTENDS Integers, Sequences, FiniteSets, TLC

\* ------------------------------------------------------------------ bounds

\* viewer connect events of one run
MaxConn == 2
\* main_info instances that can be spawned in one run
MaxLoops == 2
\* completed passes of one main_info instance
MaxPass == 2
\* highest block height the node reports
MaxHeight == 2
\* distinct live price values
MaxPrice == 2

\* blocks the ledger grows by in one run
MaxBlocks == 3
\* largest amount of one transfer
MaxAmt == 1
\* coinbase reward of a block
BlockReward == 2
\* rows of a run of zero-amount transactions inside one block
BurstRows == 250

Conns == 1..MaxConn
Loops == 1..MaxLoops
Heights == 1..MaxHeight
Prices == 1..MaxPrice

\* ------------------------------------------------- synchronizer: state

VARIABLES
    cmc_thread,     \* the singleton slot: None or the running loop instance
    thread_lock,    \* None, or the holder <<"conn", c>>
    dev_state,      \* configuration: dev mode never queries the price service
    cpc,            \* cpc[c]: position of connect handler c in test_connect
    branch,         \* branch[c]: "none", "spawn" or "replay"
    arrivedEmpty,   \* arrivedEmpty[c]: the slot was empty when c arrived
    lpc,            \* lpc[l]: position of loop instance l in main_info
    count,          \* count[l]
    current_block,  \* current_block[l]
    last_block,     \* last_block[l]
    spawnedBy,      \* spawnedBy[l]: the connect that started l, or None
    lfailed,        \* lfailed[l]: an exception has escaped the body of l
    txlist50,       \* the global transaction-list cache, Undefined at start
    dump_cmc,       \* dump_cmc.txt: the persisted price snapshot
    nodeHeight,     \* the block height the node reports
    polled,         \* polled[l]: heights get_block_info of l has accepted
    emitCount,      \* emitCount[l][h]: my_latest emits of l for height h
    ev,             \* what the last step did (queries, publications)
    passLatest,     \* passLatest[l]: the height my_latest was published for
                    \* in the pass l is in, 0 when it was not
    sinceLive,      \* sinceLive[l]: passes l began since its last live price
                    \* query, that pass included; 0 before the first one
                    \* (kept by the pass-level specification)
    sinceWallet     \* sinceWallet[l]: passes l completed since its last
                    \* get_wallet_servers call, the calling pass included;
                    \* NoRefresh before the first call (pass level as well)

syncVars == <<cmc_thread, thread_lock, dev_state, cpc, branch, arrivedEmpty,
              lpc, count, current_block, last_block, spawnedBy, lfailed,
              txlist50, dump_cmc, nodeHeight, polled, emitCount, ev,
              passLatest, sinceLive, sinceWallet>>

None == [t |-> "none", v |-> 0]
Undefined == [t |-> "undefined", v |-> 0]
\* Python values: the str "1" and the int 1 are different values
PyStr(n) == [t |-> "str", v |-> n]
PyInt(n) == [t |-> "int", v |-> n]
LoopRef(l) == [t |-> "loop", v |-> l]
ConnRef(c) == [t |-> "conn", v |-> c]

\* ev: who acted, which function, how it ended, what it published and what
\* it asked of the outside world.  pub is a set of <<topic, payload>>.
Event(who, op, out, pub, q) ==
    [who |-> who, op |-> op, out |-> out, pub |-> pub, q |-> q]
NoEvent == Event(None, "none", "none", {}, {})

\* sinceWallet before the first get_wallet_servers call of a loop
NoRefresh == -1

\* --------------------------------------------- synchronizer: constants

\* main_info: "if count % 60 == 0"
PriceEvery == 60
\* main_info: "if count == 0 or count % 12 == 0"
WalletEvery == 12
\* main_info: "if count == 299: count = 0"
CountWrap == 299

\* ------------------------------------------- synchronizer: fetch functions

\* get_status_info(): the node's statusjson is asked in every case.  When the
\* query raises RequestException the handler reads st, which was never
\* bound, and the UnboundLocalError leaves the function; any other error of
\* the try body leaves it as well.
get_status_info(outcome) ==
    [pub    |-> IF outcome = "ok" THEN {<<"my_status", 0>>} ELSE {},
     q      |-> {"statusjson"},
     raised |-> outcome # "ok"]

\* get_message_info(): asks the node for the announcement, then reads
\* message.txt outside any try.
get_message_info(outcome) ==
    [q |-> {"annget"}, raised |-> outcome # "ok"]

\* cmc_alt(message): publishes the persisted snapshot dump_cmc.txt.
cmc_alt(dump) ==
    [pub |-> {<<"my_info", dump>>}, dump |-> dump, raised |-> FALSE]

LiveOutcomes == {"ok", "timeout", "nokeys", "badjson"}

\* a live refresh that publishes the new price and leaves dump_cmc.txt as
\* it was
get_cmc_info_NoDump(mystate, live, v, dump) ==
    IF mystate /\ live = "ok"
    THEN [pub |-> {<<"my_info", v>>}, dump |-> dump, raised |-> FALSE,
          q |-> {"coingecko"}]
    ELSE IF mystate /\ live = "badjson"
    THEN [pub |-> {}, dump |-> dump, raised |-> TRUE, q |-> {"coingecko"}]
    ELSE [pub |-> cmc_alt(dump).pub, dump |-> dump, raised |-> FALSE,
          q |-> IF mystate THEN {"coingecko"} ELSE {}]

\* get_cmc_info(alt_curr, testmess, mystate, this_dev_state).
\* live is what the price service does when it is asked, v the price it
\* gives.  requests.get raising is caught by the outer except
\* (RequestException); a reply without the price keys is caught by the inner
\* bare except; json.loads raising is inside the outer try only, and a
\* ValueError is no RequestException.
get_cmc_info(mystate, live, v, dump) ==
    IF mystate
    THEN CASE live = "ok" ->
                [pub |-> {<<"my_info", v>>}, dump |-> v, raised |-> FALSE,
                 q |-> {"coingecko"}]
           [] live = "nokeys" ->
                [pub |-> cmc_alt(dump).pub, dump |-> dump, raised |-> FALSE,
                 q |-> {"coingecko"}]
           [] live = "timeout" ->
                [pub |-> cmc_alt(dump).pub, dump |-> dump, raised |-> FALSE,
                 q |-> {"coingecko"}]
           [] OTHER ->
                [pub |-> {}, dump |-> dump, raised |-> TRUE,
                 q |-> {"coingecko"}]
    ELSE [pub |-> cmc_alt(dump).pub, dump |-> dump, raised |-> FALSE,
          q |-> {}]

\* get_wallet_servers(): the emit comes before "return x"; when toolsp.xws()
\* raised, x is unbound and the return raises UnboundLocalError.
get_wallet_servers(outcome) ==
    [pub |-> {<<"my_w_servers", 0>>}, q |-> {"xws"},
     raised |-> outcome # "ok"]

\* get_mem_tx_no(): the bare except covers the mempool query.
get_mem_tx_no ==
    [pub |-> {<<"my_mem", 0>>}, q |-> {"mpgetjson"}, raised |-> FALSE]

BlockOutcomes == {"ok", "reqfail", "raise"}

\* get_block_info without the "blheight == last_block" test: every poll
\* that answers publishes
get_block_info_NoSuppress(lastb, outcome, h) ==
    CASE outcome = "ok" ->
            [r_block |-> PyInt(h), pub |-> {<<"my_latest", h>>},
             raised |-> FALSE]
      [] outcome = "reqfail" ->
            [r_block |-> lastb, pub |-> {}, raised |-> FALSE]
      [] OTHER ->
            [r_block |-> lastb, pub |-> {}, raised |-> TRUE]

\* get_block_info(last_block): h is the height the node reports.
\*   "ok"      every query answers
\*   "reqfail" a query raises RequestException: r_block = last_block
\*   "raise"   any other error leaves the function
get_block_info(lastb, outcome, h) ==
    CASE outcome = "ok" ->
            IF PyInt(h) = lastb
            THEN [r_block |-> lastb, pub |-> {}, raised |-> FALSE]
            ELSE [r_block |-> PyInt(h), pub |-> {<<"my_latest", h>>},
                  raised |-> FALSE]
      [] outcome = "reqfail" ->
            [r_block |-> lastb, pub |-> {}, raised |-> FALSE]
      [] OTHER ->
            [r_block |-> lastb, pub |-> {}, raised |-> TRUE]

\* main_info: the counter after a completed pass
NextCount(c) == IF c = CountWrap THEN 0 ELSE c + 1

\* main_info: is this pass one that asks the price service
LivePass(c, dev) == (c % PriceEvery = 0) /\ ~dev

\* main_info: is this pass one that refreshes the wallet servers
WalletPass(c) == c = 0 \/ c % WalletEvery = 0

\* ------------------------------------------- maintenance engine: state

VARIABLES
    ledger,         \* the transactions table of ledger.db, oldest row first
    tools_db,       \* tools.db: [rich, miner], each a set of rows
    blocks_txt,     \* blocks.txt: NoFile or the stored height
    bpc,            \* position of the buildtoolsdb process
    last_blk,       \* buildtoolsdb's local last_blk
    dbh,            \* what the maintenance engine did last (history)
    txn,            \* the open write transaction of updatedb, or NoTxn
    scan            \* the last gather_delta_addresses call on its own:
                    \* [limit, addresses], NoScan before any

dbVars == <<ledger, tools_db, blocks_txt, bpc, last_blk, dbh, txn, scan>>

vars == <<syncVars, dbVars>>

\* ------------------------------------------- synchronizer: test_connect

\* a lock that excludes nobody
LockFree_NoExclusion == TRUE

\* threading.Lock: "with thread_lock:" enters only while nobody holds it
LockFree == thread_lock = None

\* test_connect: the connect event arrives and get_status_info() runs,
\* before the lock is asked for.  Connects are numbered in the order of
\* their arrival.
ConnStatus(c) ==
    /\ cpc[c] = "new"
    /\ \A k \in Conns : k < c => cpc[k] # "new"
    /\ \E outcome \in {"ok", "raise"} :
         LET r == get_status_info(outcome) IN
         /\ cpc' = [cpc EXCEPT ![c] = IF r.raised THEN "err" ELSE "wait"]
         /\ ev' = Event(ConnRef(c), "get_status_info", outcome, r.pub, r.q)
    /\ arrivedEmpty' = [arrivedEmpty EXCEPT ![c] = (cmc_thread = None)]
    /\ UNCHANGED <<cmc_thread, thread_lock, dev_state, branch, lpc, count,
                   current_block, last_block, spawnedBy, lfailed, txlist50,
                   dump_cmc, nodeHeight, polled, emitCount>>
    /\ UNCHANGED <<passLatest, sinceLive, sinceWallet, dbVars>>

\* test_connect: "with thread_lock:"
ConnAcquire(c) ==
    /\ cpc[c] = "wait"
    /\ LockFree
    /\ thread_lock' = ConnRef(c)
    /\ cpc' = [cpc EXCEPT ![c] = "check"]
    /\ ev' = NoEvent
    /\ UNCHANGED <<cmc_thread, dev_state, branch, arrivedEmpty, lpc, count,
                   current_block, last_block, spawnedBy, lfailed, txlist50,
                   dump_cmc, nodeHeight, polled, emitCount>>
    /\ UNCHANGED <<passLatest, sinceLive, sinceWallet, dbVars>>

\* test_connect: "if cmc_thread is None:"
SlotEmpty == cmc_thread = None

ConnCheck(c) ==
    /\ cpc[c] = "check"
    /\ branch' = [branch EXCEPT ![c] = IF SlotEmpty THEN "spawn" ELSE "replay"]
    /\ cpc' = [cpc EXCEPT ![c] = IF SlotEmpty THEN "spawn" ELSE "replay"]
    /\ ev' = NoEvent
    /\ UNCHANGED <<cmc_thread, thread_lock, dev_state, arrivedEmpty, lpc,
                   count, current_block, last_block, spawnedBy, lfailed,
                   txlist50, dump_cmc, nodeHeight, polled, emitCount>>
    /\ UNCHANGED <<passLatest, sinceLive, sinceWallet, dbVars>>

\* the instance socketio.start_background_task creates: the unused one with
\* the smallest number
FreeLoop == CHOOSE l \in Loops : lpc[l] = "idle" /\ \A k \in Loops : lpc[k] = "idle" => l <= k

\* test_connect: cmc_thread = socketio.start_background_task(target=main_info),
\* then the lock is released.  main_info starts with count = 0,
\* current_block = "1", last_block = "0".
ConnSpawn(c) ==
    /\ cpc[c] = "spawn"
    /\ \E l \in Loops : lpc[l] = "idle"
    /\ LET l == FreeLoop IN
        /\ lpc' = [lpc EXCEPT ![l] = "price"]
        /\ count' = [count EXCEPT ![l] = 0]
        /\ current_block' = [current_block EXCEPT ![l] = PyStr(1)]
        /\ last_block' = [last_block EXCEPT ![l] = PyStr(0)]
        /\ spawnedBy' = [spawnedBy EXCEPT ![l] = ConnRef(c)]
        /\ cmc_thread' = LoopRef(l)
    /\ thread_lock' = None
    /\ cpc' = [cpc EXCEPT ![c] = "done"]
    /\ ev' = Event(ConnRef(c), "start_background_task", "ok", {}, {})
    /\ UNCHANGED <<dev_state, branch, arrivedEmpty, lfailed, txlist50,
                   dump_cmc, nodeHeight, polled, emitCount>>
    /\ UNCHANGED <<passLatest, sinceLive, sinceWallet, dbVars>>

\* test_connect, else branch: the cached price of dump_cmc.txt, the wallet
\* servers (asked of the node again, errors caught), and the cached
\* transaction list.  Reading txlist50 before main_info has assigned it
\* raises NameError; the with statement releases the lock either way.
ConnReplay(c) ==
    /\ cpc[c] = "replay"
    /\ \E w \in {"ok", "raise"} :
         LET ws == get_wallet_servers(w)
             defined == txlist50 # Undefined
         IN
         /\ cpc' = [cpc EXCEPT ![c] = IF defined THEN "done" ELSE "err"]
         /\ ev' = Event(ConnRef(c), "replay",
                        IF defined THEN "ok" ELSE "NameError",
                        {<<"my_info", dump_cmc>>} \cup ws.pub \cup
                          (IF defined THEN {<<"my_transactions", txlist50.v>>}
                                      ELSE {}),
                        ws.q)
    /\ thread_lock' = None
    /\ UNCHANGED <<cmc_thread, dev_state, branch, arrivedEmpty, lpc, count,
                   current_block, last_block, spawnedBy, lfailed, txlist50,
                   dump_cmc, nodeHeight, polled, emitCount>>
    /\ UNCHANGED <<passLatest, sinceLive, sinceWallet, dbVars>>

\* ------------------------------------------------ synchronizer: main_info

\* main_info: an exception leaves the try body of the pass and reaches
\* "except Exception as e:".
Raise(l) ==
    /\ lpc' = [lpc EXCEPT ![l] = "except"]
    /\ lfailed' = [lfailed EXCEPT ![l] = TRUE]

\* main_info: vip_mess = get_message_info(); cmc_vals = get_cmc_info(...).
\* Both branches of "if count % 60 == 0" call get_message_info.
LoopPrice(l) ==
    /\ lpc[l] = "price"
    /\ count[l] < MaxPass
    /\ \E m \in {"ok", "raise"}, live \in LiveOutcomes, v \in Prices :
         LET msg == get_message_info(m)
             mystate == LivePass(count[l], dev_state)
             r == get_cmc_info(mystate, live, v, dump_cmc)
         IN
         IF msg.raised
         THEN /\ Raise(l)
              /\ ev' = Event(LoopRef(l), "get_message_info", "raise", {}, msg.q)
              /\ UNCHANGED dump_cmc
         ELSE /\ dump_cmc' = r.dump
              /\ ev' = Event(LoopRef(l), "get_cmc_info",
                             IF mystate THEN live ELSE "file",
                             r.pub, msg.q \cup r.q)
              /\ IF r.raised
                 THEN Raise(l)
                 ELSE /\ lpc' = [lpc EXCEPT ![l] = "wallet"]
                      /\ UNCHANGED lfailed
    /\ UNCHANGED <<cmc_thread, thread_lock, dev_state, cpc, branch,
                   arrivedEmpty, count, current_block, last_block, spawnedBy,
                   txlist50, nodeHeight, polled, emitCount>>
    /\ UNCHANGED <<passLatest, sinceLive, sinceWallet, dbVars>>

\* main_info: "if count == 0 or count % 12 == 0: x = get_wallet_servers()"
LoopWallet(l) ==
    /\ lpc[l] = "wallet"
    /\ IF WalletPass(count[l])
       THEN \E w \in {"ok", "raise"} :
              LET r == get_wallet_servers(w) IN
              /\ ev' = Event(LoopRef(l), "get_wallet_servers", w, r.pub, r.q)
              /\ IF r.raised
                 THEN Raise(l)
                 ELSE /\ lpc' = [lpc EXCEPT ![l] = "status"]
                      /\ UNCHANGED lfailed
       ELSE /\ ev' = NoEvent
            /\ lpc' = [lpc EXCEPT ![l] = "status"]
            /\ UNCHANGED lfailed
    /\ UNCHANGED <<cmc_thread, thread_lock, dev_state, cpc, branch,
                   arrivedEmpty, count, current_block, last_block, spawnedBy,
                   txlist50, dump_cmc, nodeHeight, polled, emitCount>>
    /\ UNCHANGED <<passLatest, sinceLive, sinceWallet, dbVars>>

\* main_info: get_status_info(); get_mem_tx_no()
LoopStatus(l) ==
    /\ lpc[l] = "status"
    /\ \E o \in {"ok", "raise"} :
         LET r == get_status_info(o) IN
         IF r.raised
         THEN /\ Raise(l)
              /\ ev' = Event(LoopRef(l), "get_status_info", o, r.pub, r.q)
         ELSE /\ lpc' = [lpc EXCEPT ![l] = "block"]
              /\ UNCHANGED lfailed
              /\ ev' = Event(LoopRef(l), "get_status_info", o,
                             r.pub \cup get_mem_tx_no.pub,
                             r.q \cup get_mem_tx_no.q)
    /\ UNCHANGED <<cmc_thread, thread_lock, dev_state, cpc, branch,
                   arrivedEmpty, count, current_block, last_block, spawnedBy,
                   txlist50, dump_cmc, nodeHeight, polled, emitCount>>
    /\ UNCHANGED <<passLatest, sinceLive, sinceWallet, dbVars>>

\* main_info: current_block = get_block_info(current_block)
LoopBlock(l) ==
    /\ lpc[l] = "block"
    /\ \E o \in BlockOutcomes :
         LET r == get_block_info(current_block[l], o, nodeHeight)
             n == Cardinality({x \in r.pub : x[1] = "my_latest"})
         IN
         /\ ev' = Event(LoopRef(l), "get_block_info", o, r.pub,
                        {"blocklastjson"})
         /\ IF r.raised
            THEN /\ Raise(l)
                 /\ UNCHANGED <<current_block, polled, emitCount, passLatest>>
            ELSE /\ lpc' = [lpc EXCEPT ![l] = "tx"]
                 /\ UNCHANGED lfailed
                 /\ current_block' = [current_block EXCEPT ![l] = r.r_block]
                 /\ polled' = [polled EXCEPT ![l] =
                                 IF o = "ok" THEN @ \cup {nodeHeight} ELSE @]
                 /\ emitCount' = [emitCount EXCEPT ![l][nodeHeight] = @ + n]
                 /\ passLatest' = [passLatest EXCEPT ![l] =
                                     IF n > 0 THEN nodeHeight ELSE 0]
    /\ UNCHANGED <<cmc_thread, thread_lock, dev_state, cpc, branch,
                   arrivedEmpty, count, last_block, spawnedBy, txlist50,
                   dump_cmc, nodeHeight>>
    /\ UNCHANGED <<sinceLive, sinceWallet, dbVars>>

\* a refresh that sets last_block = current_block before it calls get_50
LoopTx_EarlyMark(l) ==
    /\ lpc[l] = "tx"
    /\ IF current_block[l] # last_block[l]
       THEN \E o \in {"ok", "raise"} :
              /\ last_block' = [last_block EXCEPT ![l] = current_block[l]]
              /\ IF o = "raise"
                 THEN /\ Raise(l)
                      /\ ev' = Event(LoopRef(l), "get_50", o, {}, {"listlim"})
                      /\ UNCHANGED <<txlist50, count>>
                 ELSE /\ txlist50' = PyInt(nodeHeight)
                      /\ ev' = Event(LoopRef(l), "get_50", o,
                                     {<<"my_transactions", nodeHeight>>},
                                     {"listlim"})
                      /\ count' = [count EXCEPT ![l] = NextCount(@)]
                      /\ lpc' = [lpc EXCEPT ![l] = "price"]
                      /\ UNCHANGED lfailed
       ELSE /\ ev' = NoEvent
            /\ count' = [count EXCEPT ![l] = NextCount(@)]
            /\ lpc' = [lpc EXCEPT ![l] = "price"]
            /\ UNCHANGED <<txlist50, last_block, lfailed>>
    /\ passLatest' = [passLatest EXCEPT ![l] = 0]
    /\ UNCHANGED <<cmc_thread, thread_lock, dev_state, cpc, branch,
                   arrivedEmpty, current_block, spawnedBy, dump_cmc,
                   nodeHeight, polled, emitCount>>
    /\ UNCHANGED <<sinceLive, sinceWallet, dbVars>>

\* main_info: "if current_block != last_block:" the transaction list is
\* fetched (get_50), cached in txlist50 and published, and only then
\* last_block = current_block; after either branch the counter moves on and
\* the pass sleeps.
LoopTx(l) ==
    /\ lpc[l] = "tx"
    /\ IF current_block[l] # last_block[l]
       THEN \E o \in {"ok", "raise"} :
              IF o = "raise"
              THEN /\ Raise(l)
                   /\ ev' = Event(LoopRef(l), "get_50", o, {}, {"listlim"})
                   /\ UNCHANGED <<txlist50, last_block, count>>
              ELSE /\ txlist50' = PyInt(nodeHeight)
                   /\ ev' = Event(LoopRef(l), "get_50", o,
                                  {<<"my_transactions", nodeHeight>>},
                                  {"listlim"})
                   /\ last_block' = [last_block EXCEPT ![l] = current_block[l]]
                   /\ count' = [count EXCEPT ![l] = NextCount(@)]
                   /\ lpc' = [lpc EXCEPT ![l] = "price"]
                   /\ UNCHANGED lfailed
       ELSE /\ ev' = NoEvent
            /\ count' = [count EXCEPT ![l] = NextCount(@)]
            /\ lpc' = [lpc EXCEPT ![l] = "price"]
            /\ UNCHANGED <<txlist50, last_block, lfailed>>
    /\ passLatest' = [passLatest EXCEPT ![l] = 0]
    /\ UNCHANGED <<cmc_thread, thread_lock, dev_state, cpc, branch,
                   arrivedEmpty, current_block, spawnedBy, dump_cmc,
                   nodeHeight, polled, emitCount>>
    /\ UNCHANGED <<sinceLive, sinceWallet, dbVars>>

\* an except branch that takes the lock and leaves cmc_thread as it is
LoopExcept_KeepsSlot(l) ==
    /\ lpc[l] = "except"
    /\ LockFree
    /\ lpc' = [lpc EXCEPT ![l] = "backoff"]
    /\ ev' = NoEvent
    /\ UNCHANGED <<cmc_thread, thread_lock, dev_state, cpc, branch,
                   arrivedEmpty, count, current_block, last_block, spawnedBy,
                   lfailed, txlist50, dump_cmc, nodeHeight, polled, emitCount>>
    /\ UNCHANGED <<passLatest, sinceLive, sinceWallet, dbVars>>

\* main_info, except branch: "with thread_lock: cmc_thread = None"
LoopExcept(l) ==
    /\ lpc[l] = "except"
    /\ LockFree
    /\ cmc_thread' = None
    /\ lpc' = [lpc EXCEPT ![l] = "backoff"]
    /\ ev' = NoEvent
    /\ UNCHANGED <<thread_lock, dev_state, cpc, branch, arrivedEmpty, count,
                   current_block, last_block, spawnedBy, lfailed, txlist50,
                   dump_cmc, nodeHeight, polled, emitCount>>
    /\ UNCHANGED <<passLatest, sinceLive, sinceWallet, dbVars>>

\* where main_info goes after the backoff: "time.sleep(10); continue" is
\* inside "while True", so the same instance starts another pass
AfterBackoff == "price"

\* main_info, except branch: time.sleep(10), then continue
LoopBackoff(l) ==
    /\ lpc[l] = "backoff"
    /\ lpc' = [lpc EXCEPT ![l] = AfterBackoff]
    /\ ev' = NoEvent
    /\ UNCHANGED <<cmc_thread, thread_lock, dev_state, cpc, branch,
                   arrivedEmpty, count, current_block, last_block, spawnedBy,
                   lfailed, txlist50, dump_cmc, nodeHeight, polled, emitCount>>
    /\ UNCHANGED <<passLatest, sinceLive, sinceWallet, dbVars>>

\* the node accepts a block
NodeAdvance ==
    /\ nodeHeight < MaxHeight
    /\ nodeHeight' = nodeHeight + 1
    /\ ev' = NoEvent
    /\ UNCHANGED <<cmc_thread, thread_lock, dev_state, cpc, branch,
                   arrivedEmpty, lpc, count, current_block, last_block,
                   spawnedBy, lfailed, txlist50, dump_cmc, polled, emitCount>>
    /\ UNCHANGED <<passLatest, sinceLive, sinceWallet, dbVars>>

\* the state of explorebis.py once the module has loaded: no loop, the lock
\* free, txlist50 not assigned
SyncInit ==
    /\ cmc_thread = None
    /\ thread_lock = None
    /\ dev_state \in BOOLEAN
    /\ cpc = [c \in Conns |-> "new"]
    /\ branch = [c \in Conns |-> "none"]
    /\ arrivedEmpty = [c \in Conns |-> FALSE]
    /\ lpc = [l \in Loops |-> "idle"]
    /\ count = [l \in Loops |-> 0]
    /\ current_block = [l \in Loops |-> PyStr(1)]
    /\ last_block = [l \in Loops |-> PyStr(0)]
    /\ spawnedBy = [l \in Loops |-> None]
    /\ lfailed = [l \in Loops |-> FALSE]
    /\ txlist50 = Undefined
    /\ dump_cmc = 1
    /\ nodeHeight = 1
    /\ polled = [l \in Loops |-> {}]
    /\ emitCount = [l \in Loops |-> [h \in Heights |-> 0]]
    /\ ev = NoEvent
    /\ passLatest = [l \in Loops |-> 0]
    /\ sinceLive = [l \in Loops |-> 0]
    /\ sinceWallet = [l \in Loops |-> NoRefresh]

\* dbh, the history of the maintenance engine: the last updatedb call
\* that returned (op, whether the ledger is still the one it saw, the address
\* whose statistics query raised, its return value), whether every call so
\* far ran without a raising query or a crash (clean), the ledger
\* height observed by the last cycle whose updatedb returned (okLatest,
\* once hasOk), and the block_limit that call computed (window, kept as
\* long as fresh).
NoHistory ==
    [op |-> "none", fresh |-> FALSE, failing |-> "none", ret |-> FALSE,
     clean |-> TRUE, hasOk |-> FALSE, okLatest |-> 0, window |-> 0]

\* the maintenance engine before buildtoolsdb() is called: no blocks.txt,
\* no tables, an empty ledger
\* no write transaction is open on tools.db
NoTxn ==
    [open |-> FALSE, pre |-> [rich |-> {}, miner |-> {}], rich |-> {},
     miner |-> {}, addresses |-> {}]

NoScan == [limit |-> 0, addresses |-> {}]

DbIdle ==
    /\ txn = NoTxn
    /\ scan = NoScan
    /\ ledger = <<>>
    /\ tools_db = [rich |-> {}, miner |-> {}]
    /\ blocks_txt = None
    /\ bpc = "start"
    /\ last_blk = 0
    /\ dbh = NoHistory

SyncNext ==
    \/ \E c \in Conns : ConnStatus(c)
    \/ \E c \in Conns : ConnAcquire(c)
    \/ \E c \in Conns : ConnCheck(c)
    \/ \E c \in Conns : ConnSpawn(c)
    \/ \E c \in Conns : ConnReplay(c)
    \/ \E l \in Loops : LoopPrice(l)
    \/ \E l \in Loops : LoopWallet(l)
    \/ \E l \in Loops : LoopStatus(l)
    \/ \E l \in Loops : LoopBlock(l)
    \/ \E l \in Loops : LoopTx(l)
    \/ \E l \in Loops : LoopExcept(l)
    \/ \E l \in Loops : LoopBackoff(l)
    \/ NodeAdvance

Init ==
    /\ SyncInit
    /\ DbIdle

SpecSync == Init /\ [][SyncNext]_vars

\* --------------------------------- synchronizer: main_info pass by pass

\* where a pass of the pass-level specification can fail besides the price
\* query: nowhere, or in get_status_info
PassFailures == {"none", "status"}

\* sinceLive after one more pass; PriceEvery stands for "PriceEvery or more"
NextSinceLive(n, asked) ==
    IF asked THEN 1
    ELSE IF n = 0 \/ n = PriceEvery THEN n
    ELSE n + 1

\* sinceWallet after one more pass: asked, the pass called
\* get_wallet_servers; done, it reached the end of the try body.
\* WalletEvery + 1 stands for "more than WalletEvery".
NextSinceWallet(n, asked, done) ==
    IF asked THEN (IF done THEN 1 ELSE 0)
    ELSE IF n = NoRefresh \/ n > WalletEvery \/ ~done THEN n
    ELSE n + 1

\* main_info: one whole iteration of "while True", from "try:" to
\* time.sleep(10), or to the end of the except branch (slot emptied,
\* time.sleep(10), continue) when a call raised.  The counter moves only
\* at the end of the try body.
Pass(l) ==
    /\ lpc[l] = "price"
    /\ LockFree
    /\ \E failAt \in PassFailures, live \in LiveOutcomes, v \in Prices,
          o \in BlockOutcomes \ {"raise"} :
         \* live and v are read only when the price service is asked and
         \* answers
         /\ ~LivePass(count[l], dev_state) => live = "ok"
         /\ (~LivePass(count[l], dev_state) \/ live # "ok") => v = 1
         /\ LET c == count[l]
                mystate == LivePass(c, dev_state)
                msg == get_message_info("ok")
                price == get_cmc_info(mystate, live, v, dump_cmc)
                wallet == get_wallet_servers("ok")
                status == get_status_info(IF failAt = "status" THEN "raise" ELSE "ok")
                block == get_block_info(current_block[l], o, nodeHeight)
                n == Cardinality({x \in block.pub : x[1] = "my_latest"})
                atStatus == ~price.raised
                atBlock == atStatus /\ ~status.raised
                changed == block.r_block # last_block[l]
            IN
            /\ dump_cmc' = price.dump
            /\ sinceLive' = [sinceLive EXCEPT ![l] = NextSinceLive(@, mystate)]
            /\ sinceWallet' = [sinceWallet EXCEPT ![l] =
                  NextSinceWallet(@, atStatus /\ WalletPass(c), atBlock)]
            /\ IF atBlock
               THEN /\ current_block' = [current_block EXCEPT ![l] = block.r_block]
                    /\ polled' = [polled EXCEPT ![l] =
                                    IF o = "ok" THEN @ \cup {nodeHeight} ELSE @]
                    /\ emitCount' = [emitCount EXCEPT ![l][nodeHeight] = @ + n]
                    /\ last_block' = [last_block EXCEPT ![l] = block.r_block]
                    /\ txlist50' = IF changed THEN PyInt(nodeHeight) ELSE txlist50
                    /\ count' = [count EXCEPT ![l] = NextCount(c)]
                    /\ UNCHANGED <<cmc_thread, lfailed>>
               ELSE /\ cmc_thread' = None
                    /\ lfailed' = [lfailed EXCEPT ![l] = TRUE]
                    /\ UNCHANGED <<current_block, polled, emitCount, last_block,
                                   txlist50, count>>
            /\ ev' = Event(LoopRef(l), "pass",
                           IF atBlock THEN "ok" ELSE "raise",
                           price.pub
                             \cup (IF atStatus /\ WalletPass(c) THEN wallet.pub ELSE {})
                             \cup (IF atStatus THEN status.pub ELSE {})
                             \cup (IF atBlock THEN get_mem_tx_no.pub \cup block.pub ELSE {})
                             \cup (IF atBlock /\ changed
                                   THEN {<<"my_transactions", nodeHeight>>} ELSE {}),
                           msg.q \cup price.q
                             \cup (IF atStatus /\ WalletPass(c) THEN wallet.q ELSE {})
                             \cup (IF atStatus THEN status.q ELSE {})
                             \cup (IF atBlock
                                   THEN get_mem_tx_no.q \cup {"blocklastjson"} ELSE {})
                             \cup (IF atBlock /\ changed THEN {"listlim"} ELSE {}))
    /\ UNCHANGED <<thread_lock, dev_state, cpc, branch, arrivedEmpty, lpc,
                   spawnedBy, nodeHeight, passLatest>>
    /\ UNCHANGED dbVars

\* the first viewer connects and the loop it starts runs pass after pass
CadNext ==
    \/ ConnStatus(1)
    \/ ConnAcquire(1)
    \/ ConnCheck(1)
    \/ ConnSpawn(1)
    \/ \E l \in Loops : Pass(l)

SpecCadence == Init /\ [][CadNext]_vars

\* ------------------------------------------------ synchronizer: claims

\* the positions of main_info inside the try body of a pass
PassPcs == {"price", "wallet", "status", "block", "tx"}

NoLoopFailure == \A l \in Loops : ~lfailed[l]

Spawners == {c \in Conns : branch[c] = "spawn"}

Started == {l \in Loops : lpc[l] # "idle"}

C2_AtMostOneLoop ==
    Cardinality({l \in Loops : lpc[l] \in PassPcs}) <= 1

\* C3 (as claimed): an instance whose pass raised is in its except branch
\* (releasing the slot, sleeping the backoff) and never in a pass again.
C3_FailedLoopStops ==
    \A l \in Loops : lfailed[l] => lpc[l] \in {"except", "backoff"}

RECURSIVE TotalEmits(_, _)
TotalEmits(S, h) ==
    IF S = {} THEN 0
    ELSE LET l == CHOOSE x \in S : TRUE
         IN emitCount[l][h] + TotalEmits(S \ {l}, h)

\* C4 (as claimed): over the whole run my_latest is emitted exactly once for
\* each height some poll obtained, and no height is emitted twice.
C4_OncePerHeightInRun ==
    \A h \in Heights :
        /\ TotalEmits(Loops, h) <= 1
        /\ (\E l \in Loops : h \in polled[l]) => TotalEmits(Loops, h) = 1

\* C4 (amended): each main_info instance emits my_latest exactly once for
\* each height its own polls obtained; a poll that obtains the height of
\* the instance's previous poll emits nothing.  (The node of the model
\* never lowers its height.)
C4_OncePerHeightPerInstance ==
    \A l \in Loops : \A h \in Heights :
        emitCount[l][h] = IF h \in polled[l] THEN 1 ELSE 0

\* C4 witness: an instance that has emitted the current height polls it
\* again, the poll answers, and nothing is published.
C4_Witness ==
    \E l \in Loops :
        /\ ev.who = LoopRef(l)
        /\ ev.op = "get_block_info"
        /\ ev.out = "ok"
        /\ ev.pub = {}
        /\ emitCount[l][nodeHeight] = 1

\* C5 (as claimed): whenever the live price query fails, get_cmc_info
\* raises nothing and my_info is published with the persisted snapshot.
C5_LiveFailureFallsBack ==
    (ev.op = "get_cmc_info" /\ ev.out \in {"timeout", "nokeys", "badjson"}) =>
        /\ ev.pub = {<<"my_info", dump_cmc>>}
        /\ lpc[ev.who.v] # "except"

\* C16 (as claimed): a connect that has taken the replay branch finds
\* every cache field it replays defined; txlist50 has been assigned.
C16_ReplayFieldsDefined ==
    \A c \in Conns : cpc[c] = "replay" => txlist50 # Undefined

\* C17 (as claimed): a viewer connect asks nothing of the node; only
\* main_info does.
C17_ConnectsQueryNothing ==
    ev.who.t = "conn" => ev.q = {}

\* C18 (as claimed): a pass publishes my_transactions only after it has
\* published my_latest for the height that set off the refresh.
C18_TxAfterLatestInPass ==
    [][\A l \in Loops :
          (lpc[l] = "tx" /\ ev'.who = LoopRef(l) /\ ev'.op = "get_50"
             /\ ev'.pub # {})
          => (passLatest[l] # 0 /\ current_block[l] = PyInt(passLatest[l]))]_vars

\* C20 (as claimed): the node is asked for the announcement only in a pass
\* whose counter is a multiple of 60.
C20_AnnouncementEverySixty ==
    \A l \in Loops :
        (ev.who = LoopRef(l) /\ "annget" \in ev.q) => count[l] % PriceEvery = 0

\* C19 (as claimed): a main_info loop asks the price service only in a
\* pass whose counter is a multiple of 60, at least 60 passes of that loop
\* lie between one such query and the next, and a pass that does not ask
\* publishes the snapshot of dump_cmc.txt.
C19_LivePriceEverySixty ==
    [][\A l \in Loops :
          (ev'.who = LoopRef(l) /\ ev'.op = "pass") =>
             IF "coingecko" \in ev'.q
             THEN /\ count[l] % PriceEvery = 0
                  /\ sinceLive[l] = 0 \/ sinceLive[l] >= PriceEvery
             ELSE ev'.pub \cap {<<"my_info", x>> : x \in Prices}
                    = {<<"my_info", dump_cmc>>}]_vars

\* C21 (as claimed): the counter of a main_info loop stays in 0..299 and
\* goes from 299 to 0; the loop calls get_wallet_servers exactly in the
\* passes whose counter is a multiple of 12, and two consecutive calls are
\* exactly 12 completed passes apart, across the wrap as well.
C21_WalletEveryTwelve ==
    [][\A l \in Loops :
          (ev'.who = LoopRef(l) /\ ev'.op = "pass") =>
             /\ count[l] \in 0..CountWrap
             /\ count'[l] \in 0..CountWrap
             /\ (count[l] = CountWrap /\ ev'.out = "ok") => count'[l] = 0
             /\ ("xws" \in ev'.q) => (count[l] % WalletEvery = 0)
             /\ (count[l] % WalletEvery = 0 /\ ev'.out = "ok") => "xws" \in ev'.q
             /\ ("xws" \in ev'.q) =>
                   sinceWallet[l] \in {NoRefresh, WalletEvery}]_vars

\* C22 (as claimed): when a single node query of a pass fails (the status
\* query or the wallet-server query), its fetch function handles the
\* failure and the pass goes on to its remaining steps; it does not reach
\* the except branch of the loop.
C22_QueryFailureContained ==
    \A l \in Loops :
       (ev.who = LoopRef(l) /\ ev.out = "raise"
          /\ ev.op \in {"get_status_info", "get_wallet_servers"})
       => lpc[l] # "except"

\* every main_info instance started so far has failed and has been through
\* "cmc_thread = None" of its except branch
SlotEmptiedByFailure ==
    /\ Started # {}
    /\ \A l \in Started : lfailed[l] /\ lpc[l] # "except"

\* C26: a connect that reaches "if cmc_thread is None" after a loop failure
\* has emptied the slot takes the spawn branch, not the replay branch, and
\* its spawn step starts exactly one main_info instance, which fills the
\* slot.
C26_FailureThenRespawn ==
    [][\A c \in Conns :
          /\ (cpc[c] = "check" /\ cpc'[c] # "check" /\ SlotEmptiedByFailure)
                => branch'[c] = "spawn"
          /\ (cpc[c] = "spawn" /\ cpc'[c] # "spawn")
                => /\ Cardinality({l \in Loops : lpc[l] = "idle"
                                                  /\ lpc'[l] # "idle"}) = 1
                   /\ \E l \in Loops : /\ lpc[l] = "idle"
                                       /\ cmc_thread' = LoopRef(l)
                                       /\ spawnedBy'[l] = ConnRef(c)]_vars

\* C26 witness: the first connect's loop failed and the second connect
\* spawned a second instance
C26_Witness ==
    /\ spawnedBy[1] = ConnRef(1) /\ lfailed[1]
    /\ spawnedBy[2] = ConnRef(2) /\ branch[2] = "spawn" /\ cpc[2] = "done"

\* the my_info payloads of the last event
PricePublished == {x[2] : x \in {y \in ev.pub : y[1] = "my_info"}}

\* the last event published the price from dump_cmc.txt: the cheap path, a
\* failed live query, or the replay to a late subscriber
FallbackPublication ==
    \/ ev.op = "get_cmc_info" /\ ev.out \in {"file", "timeout", "nokeys"}
    \/ ev.op = "replay"

\* C27: a successful live refresh leaves dump_cmc.txt holding the values
\* it published; every fallback publication emits what dump_cmc.txt
\* holds; and dump_cmc.txt changes in a successful live refresh only.  So
\* every fallback publication emits the values of the last successful live
\* refresh.
C27_FallbackEmitsLastLive ==
    /\ []((FallbackPublication \/ (ev.op = "get_cmc_info" /\ ev.out = "ok"))
             => PricePublished = {dump_cmc})
    /\ [][dump_cmc' # dump_cmc
            => (ev'.op = "get_cmc_info" /\ ev'.out = "ok"
                  /\ PricePublished' = {dump_cmc'})]_vars

\* C27 witness: a fallback publication after a live refresh that replaced
\* the snapshot the process started with
C27_Witness ==
    /\ FallbackPublication
    /\ dump_cmc = 2
    /\ PricePublished = {2}

\* ------------------------------ synchronizer: one loop and its retries

\* one viewer connects and starts main_info; the loop runs its passes
\* while the node grows
RetryNext ==
    \/ ConnStatus(1)
    \/ ConnAcquire(1)
    \/ ConnCheck(1)
    \/ ConnSpawn(1)
    \/ \E l \in Loops : LoopPrice(l)
    \/ \E l \in Loops : LoopWallet(l)
    \/ \E l \in Loops : LoopStatus(l)
    \/ \E l \in Loops : LoopBlock(l)
    \/ \E l \in Loops : LoopTx(l)
    \/ \E l \in Loops : LoopExcept(l)
    \/ \E l \in Loops : LoopBackoff(l)
    \/ NodeAdvance

\* the greenlet of main_info and the connect handler are scheduled whenever
\* they can run (time.sleep and the lock are the only waits), and every
\* query of a pass answers eventually: none fails forever
RetryFairness ==
    /\ WF_vars(ConnCheck(1))
    /\ WF_vars(ConnSpawn(1))
    /\ \A l \in Loops :
         /\ WF_vars(LoopExcept(l))
         /\ WF_vars(LoopBackoff(l))
         /\ SF_vars(LoopPrice(l) /\ lpc'[l] = "wallet")
         /\ SF_vars(LoopWallet(l) /\ lpc'[l] = "status")
         /\ SF_vars(LoopStatus(l) /\ lpc'[l] = "block")
         /\ SF_vars(LoopBlock(l) /\ lpc'[l] = "tx")
         /\ SF_vars(LoopTx(l) /\ lpc'[l] = "price")

SpecRetry == Init /\ [][RetryNext]_vars /\ RetryFairness

\* loop l has detected a height whose transaction list it has not
\* published: current_block != last_block
RefreshDue(l) == lpc[l] # "idle" /\ current_block[l] # last_block[l]

\* loop l has just fetched and published the transaction list
TxPublished(l) ==
    /\ ev.who = LoopRef(l) /\ ev.op = "get_50" /\ ev.out = "ok"
    /\ \E x \in ev.pub : x[1] = "my_transactions"

\* C30: a running loop changes last_block only in the step that has
\* fetched and published the transaction list, and sets it to
\* current_block; a refresh that is due stays due until that step, every
\* pass that reaches the refresh while it is due calls get_50; and, the
\* queries not failing forever, a refresh that is due is followed by a
\* my_transactions publication of that loop.
C30_RefreshRetriedUntilPublished ==
    /\ [][\A l \in Loops :
            /\ (lpc[l] # "idle" /\ last_block'[l] # last_block[l])
                  => (TxPublished(l)' /\ last_block'[l] = current_block[l])
            /\ (RefreshDue(l) /\ ~TxPublished(l)') => RefreshDue(l)'
            /\ (RefreshDue(l) /\ lpc[l] = "tx" /\ lpc'[l] # "tx")
                  => (ev'.who = LoopRef(l) /\ ev'.op = "get_50")]_vars
    /\ \A l \in Loops : RefreshDue(l) ~> TxPublished(l)

\* C30 witness: after a published refresh at height 1 the loop detected
\* height 2, get_50 raised, and last_block still is 1
C30_Witness ==
    \E l \in Loops :
       /\ lpc[l] = "except"
       /\ ev.who = LoopRef(l) /\ ev.op = "get_50" /\ ev.out = "raise"
       /\ current_block[l] = PyInt(2)
       /\ last_block[l] = PyInt(1)

\* ------------------------------------- maintenance engine: the ledger

\* toolsdb.py: bis_limit = config.getint(..., fallback=1)
bis_limit == 1
\* buildtoolsdb: last_blk = int(f.readline().strip()) - 200
Margin == 200

Addrs == {"a", "b", "c"}
Miners == {"a", "b"}
\* gather_delta_addresses: the names it leaves out, lower-cased
PseudoAccounts == {"hypernode payouts", "development reward"}

\* the names the node books hypernode payouts and development rewards under
\* (get_50 shows them in the "from" column, r[2])
PseudoNames == {"Hypernode Payouts", "Development Reward"}
\* str.lower() on the names of the model
Lower(name) ==
    CASE name = "Hypernode Payouts" -> "hypernode payouts"
      [] name = "Development Reward" -> "development reward"
      [] OTHER -> name

\* A ledger entry stands for n consecutive rows of the transactions table
\* (block_height, timestamp, address, recipient, amount, ..., reward, ...)
\* that differ in timestamp and signature only: h is block_height, snd the
\* address column (row[2]), rcp the recipient column (row[3]).
Row(h, snd, rcp, amt, rew, n) ==
    [h |-> h, snd |-> snd, rcp |-> rcp, amt |-> amt, rew |-> rew, n |-> n]

RECURSIVE SumOver(_, _)
\* the sum of w[i] over the entries i of S
SumOver(S, w) ==
    IF S = {} THEN 0
    ELSE LET i == CHOOSE x \in S : TRUE
         IN w[i] + SumOver(S \ {i}, w)

\* toolsp.latest()[0]: the height of the ledger's newest block
Latest(led) == IF led = <<>> THEN 0 ELSE led[Len(led)].h

\* toolsp.refresh(addr, 2): the per-address statistics
\* (credits, debits, rewards, fees, balance, blatest, bfirst, blockcount,
\* alias); the ledger of the model carries no fees and no aliases.
Credits(led, a) ==
    SumOver({i \in DOMAIN led : led[i].rcp = a},
            [i \in DOMAIN led |-> led[i].amt * led[i].n])
Debits(led, a) ==
    SumOver({i \in DOMAIN led : led[i].snd = a},
            [i \in DOMAIN led |-> led[i].amt * led[i].n])
Rewards(led, a) ==
    SumOver({i \in DOMAIN led : led[i].rcp = a},
            [i \in DOMAIN led |-> led[i].rew * led[i].n])
Balance(led, a) == Credits(led, a) - Debits(led, a) + Rewards(led, a)
MinedHeights(led, a) ==
    {led[i].h : i \in {j \in DOMAIN led : led[j].rcp = a /\ led[j].rew > 0}}
SetMax(S) == CHOOSE x \in S : \A y \in S : y <= x
SetMin(S) == CHOOSE x \in S : \A y \in S : x <= y
refresh(led, a) ==
    LET mined == MinedHeights(led, a) IN
    [rewards |-> Rewards(led, a),
     balance |-> Balance(led, a),
     blatest |-> IF mined = {} THEN 0 ELSE SetMax(mined),
     bfirst |-> IF mined = {} THEN 0 ELSE SetMin(mined),
     blockcount |-> Cardinality(mined)]

\* the node appends a block: at most one run of transactions, then the
\* coinbase row of the miner
Transfers(led) ==
    {Row(Latest(led) + 1, s, r, amt, 0, 1) :
        s \in {x \in Addrs : Balance(led, x) >= 1},
        r \in Addrs, amt \in 1..MaxAmt}
\* who sends the runs of zero-amount transactions, and to whom
BurstPairs == {<<"b", "c">>}
Bursts(led) ==
    {Row(Latest(led) + 1, p[1], p[2], 0, 0, BurstRows) : p \in BurstPairs}
BlockBodies(led) ==
    {<<>>} \cup
    {<<t>> : t \in {x \in Transfers(led) \cup Bursts(led) :
                      x.snd # x.rcp /\ x.amt <= Balance(led, x.snd)}}
Coinbase(led, miner) == Row(Latest(led) + 1, miner, miner, 0, BlockReward, 1)

\* ---------------------------------- maintenance engine: toolsdb.py

\* init_tools_db: tools.db removed and created again with empty tables
init_tools_db == [rich |-> {}, miner |-> {}]

\* gather_all_addresses: SELECT DISTINCT recipient FROM transactions
\* WHERE amount != 0 OR reward != 0
gather_all_addresses(led) ==
    {led[i].rcp : i \in {j \in DOMAIN led : led[j].amt # 0 \/ led[j].rew # 0}}

RECURSIVE LastRows(_, _, _)
\* ORDER BY timestamp DESC LIMIT limit: the entries the newest `limit` rows
\* belong to, i counting down from the newest entry
LastRows(led, i, limit) ==
    IF i = 0 \/ limit <= 0 THEN {}
    ELSE {i} \cup LastRows(led, i - 1, limit - led[i].n)

\* gather_delta_addresses(conn, limit): "recipient = row[2]" is the address
\* column and is left out when it is a pseudo-account; "sender = row[3]" is
\* the recipient column and is always added.
\* Only rows with a non-empty name are added ("if recipient and ...",
\* "if sender:").
gather_delta_addresses(led, limit) ==
    LET W == LastRows(led, Len(led), limit) IN
    {led[i].snd : i \in {j \in W : /\ led[j].snd # ""
                                    /\ Lower(led[j].snd) \notin PseudoAccounts}}
    \cup {led[i].rcp : i \in {j \in W : led[j].rcp # ""}}

\* a DELETE that removes nothing
DeleteRows_Nothing(table, addresses) == table

\* "DELETE FROM t WHERE address = ?" for every address of the list
DeleteRows(table, addresses) == {row \in table : row.address \notin addresses}

\* "INSERT OR IGNORE": address is the primary key, a row whose address is
\* in the table already is dropped
InsertOrIgnore(table, rows) ==
    table \cup {row \in rows : \A old \in table : old.address # row.address}

\* updatedb, "for addr in addresses": record = toolsp.refresh(addr, 2) for
\* every address but the one whose query raises, which is skipped
Records(led, addresses, failing) ==
    {[address |-> a, record |-> refresh(led, a)] : a \in addresses \ {failing}}

\* rich_rows with "balance >= bis_limit"
rich_rows_AtLeast(led, addresses, failing) ==
    {[address |-> x.address, balance |-> x.record.balance] :
        x \in {y \in Records(led, addresses, failing) :
                  y.record.balance >= bis_limit}}

\* updatedb: the rows the loop over the addresses collects
rich_rows(led, addresses, failing) ==
    {[address |-> x.address, balance |-> x.record.balance] :
        x \in {y \in Records(led, addresses, failing) :
                  y.record.balance > bis_limit}}
miner_rows(led, addresses, failing) ==
    {[address |-> x.address,
      blatest |-> x.record.blatest,
      bfirst |-> x.record.bfirst,
      blockcount |-> x.record.blockcount,
      treward |-> x.record.rewards] :
        x \in {y \in Records(led, addresses, failing) : y.record.rewards > 0}}

\* a write phase whose INSERT OR IGNORE still sees the rows the DELETEs of
\* the same call removed
WritePhase_StaleIgnore(do_full, led, db, addresses, failing) ==
    LET keep(table, rows) ==
            {row \in rows : \A old \in table : old.address # row.address}
    IN [rich |-> DeleteRows(db.rich, addresses)
                   \cup keep(db.rich, rich_rows(led, addresses, failing)),
        miner |-> DeleteRows(db.miner, addresses)
                   \cup keep(db.miner, miner_rows(led, addresses, failing))]

\* a write phase that empties both tables before it inserts
WritePhase_Rebuild(do_full, led, db, addresses, failing) ==
    [rich |-> rich_rows(led, addresses, failing),
     miner |-> miner_rows(led, addresses, failing)]

\* updatedb, part 2: the write transaction
WritePhase(do_full, led, db, addresses, failing) ==
    LET rich0 == IF do_full THEN db.rich ELSE DeleteRows(db.rich, addresses)
        miner0 == IF do_full THEN db.miner ELSE DeleteRows(db.miner, addresses)
    IN [rich |-> InsertOrIgnore(rich0, rich_rows(led, addresses, failing)),
        miner |-> InsertOrIgnore(miner0, miner_rows(led, addresses, failing))]

\* updatedb(do_full, last_block): [db: tools.db afterwards, ret: the value
\* returned, addresses: the candidates, block_limit: the window an
\* incremental call computed from its own toolsp.latest()].  failing is the address whose
\* statistics query raises ("none": no query raises).
updatedb(do_full, lastb, led, db, failing) ==
    LET db0 == IF do_full THEN init_tools_db ELSE db
        block_limit == Latest(led) - lastb
        addresses == IF do_full THEN gather_all_addresses(led)
                     ELSE gather_delta_addresses(led, block_limit)
    IN
    IF ~do_full /\ block_limit <= 0
    THEN [db |-> db0, ret |-> FALSE, addresses |-> {},
          block_limit |-> block_limit]
    ELSE IF addresses = {}
    THEN [db |-> db0, ret |-> FALSE, addresses |-> {},
          block_limit |-> IF do_full THEN 0 ELSE block_limit]
    ELSE [db |-> WritePhase(do_full, led, db0, addresses, failing),
          ret |-> TRUE, addresses |-> addresses,
          block_limit |-> IF do_full THEN 0 ELSE block_limit]

\* ------------------------------- maintenance engine: buildtoolsdb

\* the address whose toolsp.refresh raises during one updatedb call
FailingChoices == {"none", "a"}

Blocks(led) == Latest(led)

\* the node appends a block to ledger.db
AppendBlock ==
    /\ Blocks(ledger) < MaxBlocks
    /\ \E body \in BlockBodies(ledger), miner \in Miners :
         ledger' = ledger \o body \o <<Coinbase(ledger, miner)>>
    /\ dbh' = [dbh EXCEPT !.fresh = FALSE, !.window = 0]
    /\ UNCHANGED <<tools_db, blocks_txt, bpc, last_blk>>
    /\ UNCHANGED <<txn, scan, syncVars>>

\* buildtoolsdb: "if not os.path.exists(fpath):" the latest height is
\* written to blocks.txt before updatedb(do_full=True) runs
BtStart ==
    /\ bpc = "start"
    /\ IF blocks_txt = None
       THEN /\ blocks_txt' = PyInt(Latest(ledger))
            /\ bpc' = "full"
       ELSE /\ bpc' = "head"
            /\ UNCHANGED blocks_txt
    /\ UNCHANGED <<ledger, tools_db, last_blk, dbh>>
    /\ UNCHANGED <<txn, scan, syncVars>>

\* buildtoolsdb: updatedb(do_full=True) returns
BtFull ==
    /\ bpc = "full"
    /\ \E failing \in FailingChoices :
         LET r == updatedb(TRUE, 0, ledger, tools_db, failing) IN
         /\ tools_db' = r.db
         /\ dbh' = [op |-> "full", fresh |-> TRUE,
                    failing |-> failing, ret |-> r.ret,
                    clean |-> dbh.clean /\ failing \notin r.addresses,
                    hasOk |-> TRUE, okLatest |-> blocks_txt.v, window |-> 0]
    /\ bpc' = "head"
    /\ UNCHANGED <<ledger, blocks_txt, last_blk>>
    /\ UNCHANGED <<txn, scan, syncVars>>

\* a floor one block deeper than the margin
CheckpointFloor_Deeper(stored) == stored - Margin - 1

\* a floor one block short of the margin
CheckpointFloor_Shallower(stored) == stored - Margin + 1

\* buildtoolsdb: last_blk = int(f.readline().strip()) - 200
CheckpointFloor(stored) == stored - Margin

\* blocks.txt exists and its first line is no integer (an empty file, for
\* one): int() raises ValueError
Unparseable == PyStr(0)

\* buildtoolsdb, top of the loop: the floor is read from blocks.txt, then
\* the latest height is written to it, before updatedb runs.  When int()
\* raises nothing catches it and the process ends.
BtHead ==
    /\ bpc = "head"
    /\ IF blocks_txt.t = "int"
       THEN /\ last_blk' = CheckpointFloor(blocks_txt.v)
            /\ blocks_txt' = PyInt(Latest(ledger))
            /\ bpc' = "update"
       ELSE /\ bpc' = "dead"
            /\ UNCHANGED <<last_blk, blocks_txt>>
    /\ UNCHANGED <<ledger, tools_db, dbh>>
    /\ UNCHANGED <<txn, scan, syncVars>>

\* buildtoolsdb: updatedb(do_full=False, last_block=last_blk) returns, and
\* the process sleeps 20 minutes
BtUpdate ==
    /\ bpc = "update"
    /\ \E failing \in FailingChoices :
         LET r == updatedb(FALSE, last_blk, ledger, tools_db, failing) IN
         /\ tools_db' = r.db
         /\ dbh' = [op |-> "inc", fresh |-> TRUE,
                    failing |-> failing, ret |-> r.ret,
                    clean |-> dbh.clean /\ failing \notin r.addresses,
                    hasOk |-> TRUE, okLatest |-> blocks_txt.v,
                    window |-> r.block_limit]
    /\ bpc' = "head"
    /\ UNCHANGED <<ledger, blocks_txt, last_blk>>
    /\ UNCHANGED <<txn, scan, syncVars>>

\* updatedb raises (sqlite3 cannot open or write a database): nothing in
\* buildtoolsdb catches it and the process ends.  An incremental call has
\* committed nothing; a full call may have run init_tools_db already.
BtCrash ==
    /\ bpc \in {"full", "update"}
    /\ \E emptied \in BOOLEAN :
         tools_db' = IF bpc = "full" /\ emptied THEN init_tools_db ELSE tools_db
    /\ bpc' = "dead"
    /\ dbh' = [dbh EXCEPT !.clean = FALSE, !.op = "none", !.fresh = FALSE,
                           !.window = 0]
    /\ UNCHANGED <<ledger, blocks_txt, last_blk>>
    /\ UNCHANGED <<txn, scan, syncVars>>

\* the operator starts toolsdb.py again
BtRestart ==
    /\ bpc = "dead"
    /\ bpc' = "start"
    /\ UNCHANGED <<ledger, tools_db, blocks_txt, last_blk, dbh>>
    /\ UNCHANGED <<txn, scan, syncVars>>

DbNext ==
    \/ AppendBlock
    \/ BtStart
    \/ BtFull
    \/ BtHead
    \/ BtUpdate
    \/ BtCrash
    \/ BtRestart

\* while the process is down blocks.txt is removed (the way to ask for a
\* full rebuild) or is left without a parseable first line
CheckpointLost ==
    /\ bpc = "dead"
    /\ blocks_txt.t = "int"
    /\ blocks_txt' \in {None, Unparseable}
    /\ UNCHANGED <<ledger, tools_db, bpc, last_blk, dbh>>
    /\ UNCHANGED <<txn, scan, syncVars>>

OpsNext ==
    \/ AppendBlock
    \/ BtStart
    \/ BtFull
    \/ BtHead
    \/ BtUpdate
    \/ BtCrash
    \/ BtRestart
    \/ CheckpointLost

\* the maintenance engine runs as its own process (python toolsdb.py)
DbInit ==
    /\ Init
    /\ dev_state = FALSE

SpecDb == DbInit /\ [][DbNext]_vars

\* the maintenance engine over several runs, with what can happen to
\* blocks.txt between two runs
SpecOps == DbInit /\ [][OpsNext]_vars

\* ---------------------- gather_delta_addresses on its own

MaxRows == 2
GatherNames == {"a", "b"} \cup PseudoNames
\* the newest rows of the transactions table, oldest first, one block
GatherRows == {Row(1, s, r, 0, 0, 1) : s \in GatherNames, r \in GatherNames}
GatherLedgers ==
    UNION {[1..k -> GatherRows] : k \in 0..MaxRows}

\* gather_delta_addresses(src_conn, limit) is called on the ledger
Gather(limit) ==
    /\ scan = NoScan
    /\ scan' = [limit |-> limit,
                addresses |-> gather_delta_addresses(ledger, limit)]
    /\ UNCHANGED <<ledger, tools_db, blocks_txt, bpc, last_blk, dbh, txn>>
    /\ UNCHANGED syncVars

GatherNext == \E limit \in 1..MaxRows : Gather(limit)

GatherInit ==
    /\ SyncInit
    /\ txn = NoTxn
    /\ scan = NoScan
    /\ ledger \in GatherLedgers
    /\ tools_db = [rich |-> {}, miner |-> {}]
    /\ blocks_txt = None
    /\ bpc = "start"
    /\ last_blk = 0
    /\ dbh = NoHistory

SpecGather == GatherInit /\ [][GatherNext]_vars

\* --------------------- maintenance engine: the write transaction of updatedb

\* tools.db as the other connections read it: the committed tables.  txn
\* holds the tables as the writing connection sees them after "BEGIN"
\* (rich, miner), the candidates (addresses) and the committed tables at
\* BEGIN (pre).
Pending(t) == [rich |-> t.rich, miner |-> t.miner]

\* a connection in autocommit mode: what the statements wrote stays
Rollback_KeepsWrites(committed, t) == Pending(t)

\* "with sqlite3.connect(db_path) as conn:" left by an exception: the
\* connection rolls the transaction back
Rollback(committed, t) == committed

\* updatedb(do_full=False), part 1 and the head of part 2: the candidates
\* are gathered, BEGIN, the two DELETEs.  The early returns leave tools.db
\* alone.
TxBegin ==
    /\ bpc = "update"
    /\ LET block_limit == Latest(ledger) - last_blk
           addresses == gather_delta_addresses(ledger, block_limit)
       IN
       IF block_limit <= 0 \/ addresses = {}
       THEN /\ bpc' = "head"
            /\ UNCHANGED txn
       ELSE /\ bpc' = "rows"
            /\ txn' = [open |-> TRUE, pre |-> tools_db,
                       rich |-> DeleteRows(tools_db.rich, addresses),
                       miner |-> DeleteRows(tools_db.miner, addresses),
                       addresses |-> addresses]
    /\ dbh' = [dbh EXCEPT !.op = "none", !.fresh = FALSE, !.window = 0]
    /\ UNCHANGED <<ledger, tools_db, blocks_txt, last_blk>>
    /\ UNCHANGED <<scan, syncVars>>

\* updatedb: the loop over the addresses (toolsp.refresh) and the two
\* INSERT OR IGNORE statements
TxInsert ==
    /\ bpc = "rows"
    /\ \E failing \in FailingChoices :
         txn' = [txn EXCEPT
                   !.rich = InsertOrIgnore(@, rich_rows(ledger, txn.addresses, failing)),
                   !.miner = InsertOrIgnore(@, miner_rows(ledger, txn.addresses, failing))]
    /\ bpc' = "commit"
    /\ UNCHANGED <<ledger, tools_db, blocks_txt, last_blk, dbh>>
    /\ UNCHANGED <<scan, syncVars>>

\* updatedb: conn.commit(); the call returns True and the process sleeps
TxCommit ==
    /\ bpc = "commit"
    /\ tools_db' = Pending(txn)
    /\ txn' = NoTxn
    /\ bpc' = "head"
    /\ UNCHANGED <<ledger, blocks_txt, last_blk, dbh>>
    /\ UNCHANGED <<scan, syncVars>>

\* updatedb: a statement of the write phase raises (sqlite3 error) after
\* the DELETEs or after the INSERTs; the exception leaves the with block,
\* updatedb and buildtoolsdb
TxAbort ==
    /\ bpc \in {"rows", "commit"}
    /\ tools_db' = Rollback(tools_db, txn)
    /\ txn' = NoTxn
    /\ bpc' = "dead"
    /\ dbh' = [dbh EXCEPT !.clean = FALSE]
    /\ UNCHANGED <<ledger, blocks_txt, last_blk>>
    /\ UNCHANGED <<scan, syncVars>>

TxNext ==
    \/ AppendBlock
    \/ BtStart
    \/ BtFull
    \/ BtHead
    \/ TxBegin
    \/ TxInsert
    \/ TxCommit
    \/ TxAbort
    \/ BtCrash
    \/ BtRestart

\* the maintenance engine with the write phase of the incremental refresh
\* statement by statement, as a reader of tools.db meets it
SpecTxn == DbInit /\ [][TxNext]_vars

\* ------------------------------------------- maintenance engine: claims

\* an updatedb call has returned and the ledger is still the one it read
JustRefreshed == dbh.op \in {"full", "inc"} /\ dbh.fresh

InRichlist(a) == \E row \in tools_db.rich : row.address = a
InMinerlist(a) == \E row \in tools_db.miner : row.address = a

\* C6 (as claimed): after a full rebuild or an incremental refresh has
\* completed, no address whose ledger balance is <= bis_limit has a
\* richlist row.
C6_NoRowAtOrBelowLimit ==
    JustRefreshed =>
        \A a \in Addrs : Balance(ledger, a) <= bis_limit => ~InRichlist(a)

\* C7: every richlist row stores a balance > bis_limit and every minerlist
\* row stores a treward > 0.
C7_StoredValuesAboveThreshold ==
    /\ \A row \in tools_db.rich : row.balance > bis_limit
    /\ \A row \in tools_db.miner : row.treward > 0

\* C7 witness: a refresh has just handled an address whose balance is
\* exactly bis_limit and left it out, while both tables hold rows.
C7_Witness ==
    /\ JustRefreshed
    /\ dbh.failing = "none"
    /\ tools_db.rich # {}
    /\ tools_db.miner # {}
    /\ \E a \in Addrs : Balance(ledger, a) = bis_limit /\ ~InRichlist(a)

\* C8: right after updatedb(do_full=False, last_blk) has returned, with the
\* ledger unchanged, running it again with the same last_blk (the
\* statistics queries answering as before) leaves richlist and minerlist
\* exactly as the first run left them.
C8_SecondRunChangesNothing ==
    (bpc = "head" /\ dbh.op = "inc" /\ dbh.fresh) =>
        updatedb(FALSE, last_blk, ledger, tools_db, dbh.failing).db = tools_db

\* C8 witness: an incremental refresh has returned True, both tables hold
\* rows, and one of the addresses it deleted and re-read is at or below
\* the limit and has no richlist row.
C8_Witness ==
    /\ bpc = "head" /\ dbh.op = "inc" /\ dbh.fresh /\ dbh.ret
    /\ tools_db.rich # {}
    /\ tools_db.miner # {}
    /\ \E a \in gather_delta_addresses(ledger, Latest(ledger) - last_blk) :
         Balance(ledger, a) <= bis_limit /\ ~InRichlist(a)

\* the tables of a single full rebuild of the ledger as it is now
FullRebuild == updatedb(TRUE, 0, ledger, tools_db, "none").db

\* C9 (as claimed): after the first-run full rebuild and the scheduled
\* incremental refreshes that followed (no statistics query raised, no call
\* crashed), the tables equal those of a single full rebuild of the
\* present ledger.
C9_IncrementalsEqualFullRebuild ==
    (bpc = "head" /\ dbh.op = "inc" /\ dbh.fresh /\ dbh.clean) =>
        tools_db = FullRebuild

\* C10, the floor: the floor an incremental refresh uses is never below
\* (the height observed by the last cycle whose updatedb returned) - 200.
C10_FloorBound ==
    (bpc = "update" /\ dbh.hasOk) => last_blk >= dbh.okLatest - Margin

\* C10, the file: the height stored in blocks.txt never decreases.
C10_StoredStep ==
    blocks_txt # None => (blocks_txt' # None /\ blocks_txt'.v >= blocks_txt.v)

\* C10: the floor of every incremental window is at least the height
\* observed at the last successful cycle minus 200, and the value stored in
\* blocks.txt never decreases from one cycle to the next.
C10_CheckpointNeverRegresses ==
    [](C10_FloorBound) /\ [][C10_StoredStep]_vars

\* C10 witness: a cycle whose updatedb crashed lies between the last
\* successful cycle and this one, the ledger grew meanwhile, and the floor
\* in use is above (height at last success) - 200.
C10_Witness ==
    /\ bpc = "update"
    /\ dbh.hasOk
    /\ ~dbh.clean
    /\ last_blk > dbh.okLatest - Margin

\* C11 (as claimed): the window of an incremental refresh is L - (S - 200),
\* where S is the value the cycle read from blocks.txt and L the latest
\* height the cycle wrote to it: the height updatedb computes the window
\* from is the height stored in the checkpoint.
C11_WindowFromStoredLatest ==
    (bpc = "head" /\ dbh.op = "inc" /\ dbh.fresh) =>
        dbh.window = blocks_txt.v - last_blk

\* C12, the reader: while the write transaction of an incremental refresh
\* is open, tools.db as a reader sees it is the pre-cycle table.
C12_ReaderSeesPre == txn.open => tools_db = txn.pre

\* C12, the steps: a step taken while the transaction is open leaves the
\* reader the complete pre-cycle tables (the transaction goes on, or stops
\* with an error) or gives it the complete post-cycle tables (the commit
\* of all deletes and inserts).
C12_WriteStep ==
    txn.open =>
        \/ tools_db' = txn.pre
        \/ /\ bpc = "commit"
           /\ ~txn'.open
           /\ tools_db' = Pending(txn)

\* C12: a reader of richlist/minerlist during an incremental refresh sees
\* the complete pre-cycle or the complete post-cycle contents; when the
\* write phase stops with an error after some deletes or inserts, none of
\* them becomes visible.
C12_AllOrNothing == [](C12_ReaderSeesPre) /\ [][C12_WriteStep]_vars

\* C12 witness: the write phase has deleted rows and inserted others, the
\* reader still has the pre-cycle rows.
C12_Witness ==
    /\ txn.open
    /\ bpc = "commit"
    /\ tools_db.rich # {}
    /\ txn.rich # tools_db.rich
    /\ txn.miner # tools_db.miner
    /\ \E row \in tools_db.rich : row \notin txn.rich

\* the candidate addresses of the updatedb call that has just returned
LastCandidates ==
    IF dbh.op = "full" THEN gather_all_addresses(ledger)
    ELSE gather_delta_addresses(ledger, dbh.window)

\* C13: when toolsp.refresh raised for one candidate of a refresh cycle
\* that went on to its commit, that address has no row in richlist or
\* minerlist, and every other candidate has exactly the rows its
\* statistics give (a richlist row iff balance > bis_limit, a minerlist
\* row iff rewards > 0, with the fresh values).
C13_FailingAddressSkipped ==
    (JustRefreshed /\ dbh.ret /\ dbh.failing \in LastCandidates) =>
        /\ ~InRichlist(dbh.failing)
        /\ ~InMinerlist(dbh.failing)
        /\ \A a \in LastCandidates \ {dbh.failing} :
             /\ {row \in tools_db.rich : row.address = a}
                  = rich_rows(ledger, {a}, "none")
             /\ {row \in tools_db.miner : row.address = a}
                  = miner_rows(ledger, {a}, "none")

\* C13 witness: an incremental refresh has committed, the statistics query
\* of a candidate that qualifies for both tables raised, and another
\* candidate got a richlist row.
C13_Witness ==
    /\ JustRefreshed /\ dbh.op = "inc" /\ dbh.ret
    /\ dbh.failing \in LastCandidates
    /\ Balance(ledger, dbh.failing) > bis_limit
    /\ Rewards(ledger, dbh.failing) > 0
    /\ \E a \in LastCandidates \ {dbh.failing} : InRichlist(a)

\* C14 (as claimed): when updatedb, full or incremental, stops because it
\* cannot open ledger.db or tools.db, richlist and minerlist are as they
\* were before the call.
C14_FailedOpenKeepsTables ==
    [][(bpc \in {"full", "update"} /\ bpc' = "dead") => tools_db' = tools_db]_vars

\* C15 (as claimed): buildtoolsdb started with blocks.txt missing or
\* without a parseable integer goes to the full rebuild first.
C15_BadCheckpointRebuilds ==
    [][(bpc = "start" /\ blocks_txt.t # "int" /\ bpc' # "start")
          => bpc' = "full"]_vars

\* C23 (as claimed): when updatedb raises or the process stops between the
\* start of a refresh and its commit, blocks.txt still holds the value it
\* had before the cycle began: absent on a first run, the stored height the
\* floor was read from in the scheduled loop.
C23_CheckpointAfterCommit ==
    [][(bpc \in {"full", "update"} /\ bpc' = "dead") =>
          blocks_txt' = IF bpc = "full" THEN None
                        ELSE PyInt(last_blk + Margin)]_vars

\* C24 (as claimed): a cycle whose updatedb call raises does not end
\* buildtoolsdb; the process goes on to the head of its next cycle.
C24_FailedCycleKeepsRunning ==
    [][(bpc \in {"full", "update"}) => (bpc' \in {bpc, "head"})]_vars

\* C25 (as claimed): for rows laid out (height, timestamp, sender,
\* recipient, ...), the touched set of the scanned rows is every sender
\* together with every recipient that is not one of the pseudo-accounts.
C25_TouchedSet ==
    scan # NoScan =>
       LET W == LastRows(ledger, Len(ledger), scan.limit) IN
       scan.addresses =
          {ledger[i].snd : i \in W}
          \cup {ledger[i].rcp : i \in {j \in W : ledger[j].rcp \notin PseudoNames}}

\* the rows of address a in a table
RowsOf(table, a) == {row \in table : row.address = a}

\* C28: updatedb(do_full=False) leaves the richlist and minerlist rows of
\* every address outside its touched set as they were, and when it returns
\* False both tables are as they were.
C28_OnlyTouchedRowsChange ==
    [][(bpc = "update" /\ bpc' = "head") =>
          LET touched ==
                  gather_delta_addresses(ledger, Latest(ledger) - last_blk)
          IN /\ \A a \in Addrs \ touched :
                  /\ RowsOf(tools_db'.rich, a) = RowsOf(tools_db.rich, a)
                  /\ RowsOf(tools_db'.miner, a) = RowsOf(tools_db.miner, a)
             /\ ~dbh'.ret => tools_db' = tools_db]_vars

\* C28 witness: an incremental refresh has returned True and an address
\* outside its touched set has a row
C28_Witness ==
    /\ bpc = "head" /\ dbh.op = "inc" /\ dbh.fresh /\ dbh.ret
    /\ \E a \in Addrs \ gather_delta_addresses(ledger, dbh.window) :
          InRichlist(a) /\ InMinerlist(a)

\* C29: in the scheduled loop the window of every incremental refresh,
\* latest height minus floor, is at least the margin of 200, so updatedb
\* never takes its "block_limit <= 0" return.
C29_WindowAtLeastMargin ==
    /\ bpc = "update" => Latest(ledger) - last_blk >= Margin
    /\ (dbh.op = "inc" /\ dbh.fresh) => dbh.window >= Margin
    /\ (dbh.op = "inc" /\ dbh.fresh /\ ~dbh.ret) =>
          gather_delta_addresses(ledger, dbh.window) = {}

\* C29 witness: an incremental refresh ran with a window of exactly the
\* margin, on a ledger that has rows
C29_Witness ==
    /\ dbh.op = "inc" /\ dbh.fresh /\ dbh.ret
    /\ dbh.window = Margin
    /\ ledger # <<>>

====
